---- MODULE Spec2Model ----
(***************************************************************************)
(* Model of server.js of fpl-compare: an express server that proxies the   *)
(* FPL API through two time-based in-memory caches and answers three       *)
(* endpoints.  Every action is one run-to-completion turn of the Node      *)
(* event loop: the synchronous part of a handler up to its first await     *)
(* that has to wait for the network, or the continuation that runs when    *)
(* an upstream fetch settles.  The second source file is an earlier copy   *)
(* of server.js without the fixtures cache and endpoint; the code the two  *)
(* share is the same.                                                      *)
(*                                                                         *)
(* JS values: null/undefined objects are the record Null; a number that    *)
(* may be NaN or null is a sequence, <<>> for NaN or null and <<n>> for n; *)
(* a route parameter is a sequence of one-character strings.               *)
(***************************************************************************)
EXTENDS Integers, Sequences, FiniteSets, TLC

----------------------------------------------------------------------------
\* Bounds of the model.

\* number of HTTP requests that arrive
MaxReqs == 2
\* the clock stops advancing once it is this many TTL windows past the start
MaxWindows == 2
\* Date.now() when the process starts
StartClock == 1000
\* longest upstream fixture list drawn for the fixture selector
MaxFixtures == 6

----------------------------------------------------------------------------
\* Program constants.

BOOTSTRAP_CACHE_MS == 60 * 1000
FIXTURES_CACHE_MS == 60 * 1000
\* the sort key of a fixture without a gameweek (a.event || 999)
NO_EVENT_KEY == 999
\* .slice(0, 5)
SLICE_END == 5

Null == [null |-> TRUE]
NaN == <<>>
\* null where a number may stand (a number n is <<n>>)
NullNumber == <<>>
\* a fixture's event when upstream has not scheduled it (JSON null)
NoEvent == NullNumber

----------------------------------------------------------------------------
\* Upstream data the FPL API may serve.

Team(id, name, ah, aa, dh, da) ==
    [id |-> id, name |-> name,
     strength_attack_home |-> ah, strength_attack_away |-> aa,
     strength_defence_home |-> dh, strength_defence_away |-> da]

ElementType(id, short) == [id |-> id, singular_name_short |-> short]

RawPlayer(id, web, team, et, pts) ==
    [id |-> id, web_name |-> web, first_name |-> "F", second_name |-> web,
     team |-> team, element_type |-> et,
     now_cost |-> 40 + pts, total_points |-> pts, minutes |-> 90 * pts,
     goals_scored |-> pts, assists |-> pts + 1, clean_sheets |-> 2,
     goals_conceded |-> 3, own_goals |-> 0, penalties_saved |-> 0,
     penalties_missed |-> 1, yellow_cards |-> 2, red_cards |-> 0,
     saves |-> 4, bonus |-> 5, bps |-> 6 + pts, influence |-> "10.2",
     creativity |-> "3.4", threat |-> "5.0", ict_index |-> "1.9",
     form |-> "2.5", points_per_game |-> "4.1",
     selected_by_percent |-> "12.0", ep_next |-> "3.0", ep_this |-> "2.0",
     expected_goals |-> "0.31", expected_assists |-> "0.12",
     expected_goal_involvements |-> "0.43",
     expected_goals_conceded |-> "1.10"]

Fixture(id, event, h, a, hd, ad) ==
    [id |-> id, event |-> event, team_h |-> h, team_a |-> a,
     team_h_difficulty |-> hd, team_a_difficulty |-> ad,
     kickoff_time |-> id]

Arsenal == Team(1, "Arsenal", 11, 12, 13, 14)
Villa == Team(2, "Aston Villa", 21, 22, 23, 24)
Brent == Team(3, "Brentford", 31, 32, 33, 34)

\* two snapshots of bootstrap-static; the second has lost team 1, player 2
\* and position type 1, and player 1 has other statistics
BootstrapA ==
    [teams |-> <<Arsenal, Villa>>,
     element_types |-> <<ElementType(1, "GKP"), ElementType(4, "FWD")>>,
     elements |-> <<RawPlayer(1, "Raya", 1, 1, 3),
                    RawPlayer(2, "Watkins", 2, 4, 7),
                    RawPlayer(3, "Toney", 3, 9, 5)>>]
BootstrapB ==
    [teams |-> <<Villa, Brent>>,
     element_types |-> <<ElementType(4, "FWD")>>,
     elements |-> <<RawPlayer(1, "Raya", 1, 1, 4),
                    RawPlayer(3, "Toney", 3, 4, 5)>>]
BootstrapPayloads == {BootstrapA, BootstrapB}

\* gameweeks [3,1,none,2,5,4,6] for team 1, home and away, with one
\* opponent (team 3) that BootstrapA does not list and one fixture of others
FixturesA ==
    <<Fixture(1, <<3>>, 1, 2, 2, 4), Fixture(2, <<1>>, 3, 1, 3, 5),
      Fixture(3, NoEvent, 1, 2, 2, 4), Fixture(4, <<2>>, 2, 1, 3, 4),
      Fixture(5, <<1>>, 2, 3, 2, 2), Fixture(6, <<5>>, 1, 3, 2, 3),
      Fixture(7, <<4>>, 2, 1, 4, 5), Fixture(8, <<6>>, 1, 2, 3, 3)>>
FixturesB ==
    <<Fixture(1, <<2>>, 2, 3, 2, 3), Fixture(2, <<2>>, 1, 2, 5, 2),
      Fixture(3, <<1>>, 3, 2, 3, 3)>>
FixturesPayloads == {FixturesA, FixturesB}

\* the ways one upstream request settles: a parsed body, a non-2xx status,
\* a transport error, or a body that is not JSON
OkOutcomes(payloads) == {[kind |-> "ok", data |-> d] : d \in payloads}
FailOutcomes ==
    {[kind |-> "status"], [kind |-> "transport"], [kind |-> "badjson"]}

----------------------------------------------------------------------------
\* JavaScript helpers.

Min(a, b) == IF a < b THEN a ELSE b

Digits == {"0", "1", "2", "3", "4", "5", "6", "7", "8", "9"}

DigitValue(c) ==
    CASE c = "0" -> 0 [] c = "1" -> 1 [] c = "2" -> 2 [] c = "3" -> 3
      [] c = "4" -> 4 [] c = "5" -> 5 [] c = "6" -> 6 [] c = "7" -> 7
      [] c = "8" -> 8 [] c = "9" -> 9

AllDigits(s) == \A i \in 1..Len(s) : s[i] \in Digits

RECURSIVE DecimalValue(_, _)
DecimalValue(s, acc) ==
    IF s = <<>> THEN acc
    ELSE DecimalValue(Tail(s), acc * 10 + DigitValue(Head(s)))

\* Number(string) on strings of digits, signs and letters: the empty string
\* is 0, an optionally signed run of digits is its value, the rest is NaN
Number(s) ==
    IF s = <<>> THEN <<0>>
    ELSE IF AllDigits(s) THEN <<DecimalValue(s, 0)>>
    ELSE IF Len(s) > 1 /\ Head(s) \in {"-", "+"} /\ AllDigits(Tail(s))
         THEN IF Head(s) = "-" THEN <<0 - DecimalValue(Tail(s), 0)>>
              ELSE <<DecimalValue(Tail(s), 0)>>
    ELSE NaN

\* !x for a number x: NaN and 0 are falsy
Falsy(x) == x = NaN \/ x = <<0>>

\* array.find(t => t.id === id) for a number id: the first match, or Null
FindById(arr, id) ==
    LET I == {i \in 1..Len(arr) : <<arr[i].id>> = id}
    IN  IF I = {} THEN Null ELSE arr[CHOOSE i \in I : \A j \in I : i <= j]

\* teamMap.get(id) after teams.forEach(t => teamMap.set(t.id, t)): the last
\* team with that id, or Null
TeamMapGet(teams, id) ==
    LET I == {i \in 1..Len(teams) : teams[i].id = id}
    IN  IF I = {} THEN Null ELSE teams[CHOOSE i \in I : \A j \in I : i >= j]

----------------------------------------------------------------------------
\* The player projector.

mapPlayer(rawPlayer, teams, elementsTypes) ==
    LET team == FindById(teams, <<rawPlayer.team>>)
        type == FindById(elementsTypes, <<rawPlayer.element_type>>)
    IN  [id |-> rawPlayer.id,
         web_name |-> rawPlayer.web_name,
         first_name |-> rawPlayer.first_name,
         second_name |-> rawPlayer.second_name,
         team_id |-> rawPlayer.team,
         team |-> IF team # Null THEN team.name ELSE "Unknown",
         position |-> IF type # Null THEN type.singular_name_short ELSE "UNK",
         stats |->
           [now_cost |-> rawPlayer.now_cost,
            total_points |-> rawPlayer.total_points,
            minutes |-> rawPlayer.minutes,
            goals_scored |-> rawPlayer.goals_scored,
            assists |-> rawPlayer.assists,
            clean_sheets |-> rawPlayer.clean_sheets,
            goals_conceded |-> rawPlayer.goals_conceded,
            own_goals |-> rawPlayer.own_goals,
            penalties_saved |-> rawPlayer.penalties_saved,
            penalties_missed |-> rawPlayer.penalties_missed,
            yellow_cards |-> rawPlayer.yellow_cards,
            red_cards |-> rawPlayer.red_cards,
            saves |-> rawPlayer.saves,
            bonus |-> rawPlayer.bonus,
            bps |-> rawPlayer.bps,
            influence |-> rawPlayer.influence,
            creativity |-> rawPlayer.creativity,
            threat |-> rawPlayer.threat,
            ict_index |-> rawPlayer.ict_index,
            form |-> rawPlayer.form,
            points_per_game |-> rawPlayer.points_per_game,
            selected_by_percent |-> rawPlayer.selected_by_percent,
            ep_next |-> rawPlayer.ep_next,
            ep_this |-> rawPlayer.ep_this,
            expected_goals |-> rawPlayer.expected_goals,
            expected_assists |-> rawPlayer.expected_assists,
            expected_goal_involvements |->
                rawPlayer.expected_goal_involvements,
            expected_goals_conceded |-> rawPlayer.expected_goals_conceded]]

----------------------------------------------------------------------------
\* The fixture selector of GET /api/team-fixtures/:teamId.

\* f.event || 999: a missing event and event 0 are both falsy
EventKey(f) ==
    IF f.event = NoEvent \/ f.event = <<0>> THEN NO_EVENT_KEY
    ELSE f.event[1]

\* the comparator handed to sort: evA - evB
CompareFixtures(a, b) == EventKey(a) - EventKey(b)

\* .filter((f) => f.team_h === teamId || f.team_a === teamId)
RECURSIVE FilterFixtures(_, _)
FilterFixtures(fixtures, teamId) ==
    IF fixtures = <<>> THEN <<>>
    ELSE LET f == Head(fixtures)
             rest == FilterFixtures(Tail(fixtures), teamId)
         IN  IF <<f.team_h>> = teamId \/ <<f.team_a>> = teamId
             THEN <<f>> \o rest ELSE rest

\* variant: an unstable sort, x goes before the elements it ties with
RECURSIVE InsertFixture_Unstable(_, _)
InsertFixture_Unstable(sorted, x) ==
    IF sorted = <<>> THEN <<x>>
    ELSE IF CompareFixtures(Head(sorted), x) >= 0 THEN <<x>> \o sorted
    ELSE <<Head(sorted)>> \o InsertFixture_Unstable(Tail(sorted), x)

\* one step of a stable sort: x goes behind every element that does not
\* compare greater than it
RECURSIVE InsertFixture(_, _)
InsertFixture(sorted, x) ==
    IF sorted = <<>> THEN <<x>>
    ELSE IF CompareFixtures(Head(sorted), x) > 0 THEN <<x>> \o sorted
    ELSE <<Head(sorted)>> \o InsertFixture(Tail(sorted), x)

\* Array.prototype.sort with the comparator (stable since ES2019): the
\* elements are inserted in their original order
RECURSIVE SortFrom(_, _)
SortFrom(sorted, todo) ==
    IF todo = <<>> THEN sorted
    ELSE SortFrom(InsertFixture(sorted, Head(todo)), Tail(todo))

SortFixtures(arr) == SortFrom(<<>>, arr)

\* .slice(0, 5)
SliceFixtures(arr) == SubSeq(arr, 1, Min(SLICE_END, Len(arr)))

\* variant: the venue is not inverted
OpponentDefStrength_SameVenue(opponentTeam, isHome) ==
    IF opponentTeam # Null
    THEN IF isHome THEN <<opponentTeam.strength_defence_home>>
         ELSE <<opponentTeam.strength_defence_away>>
    ELSE NullNumber

\* the strength of the opponent at the venue of the fixture: its away
\* strength when the requested team is home, its home strength otherwise
OpponentDefStrength(opponentTeam, isHome) ==
    IF opponentTeam # Null
    THEN IF isHome THEN <<opponentTeam.strength_defence_away>>
         ELSE <<opponentTeam.strength_defence_home>>
    ELSE NullNumber

OpponentAttStrength(opponentTeam, isHome) ==
    IF opponentTeam # Null
    THEN IF isHome THEN <<opponentTeam.strength_attack_away>>
         ELSE <<opponentTeam.strength_attack_home>>
    ELSE NullNumber

\* the .map callback
FixtureView(f, teamId, teams) ==
    LET isHome == <<f.team_h>> = teamId
        opponentId == IF isHome THEN f.team_a ELSE f.team_h
        opponentTeam == TeamMapGet(teams, opponentId)
    IN  [gw |-> f.event,
         is_home |-> isHome,
         opponent_team_id |-> opponentId,
         opponent_name |->
             IF opponentTeam # Null THEN opponentTeam.name ELSE "Unknown",
         difficulty |->
             IF isHome THEN f.team_h_difficulty ELSE f.team_a_difficulty,
         opponent_def_strength |-> OpponentDefStrength(opponentTeam, isHome),
         opponent_att_strength |-> OpponentAttStrength(opponentTeam, isHome),
         kickoff_time |-> f.kickoff_time]

\* fixtures.filter(...).sort(...).slice(0, 5).map(...)
TeamFixtures(fixtures, teamId, teams) ==
    LET kept == SliceFixtures(SortFixtures(FilterFixtures(fixtures, teamId)))
    IN  [i \in 1..Len(kept) |-> FixtureView(kept[i], teamId, teams)]

----------------------------------------------------------------------------
\* The bodies of the three handlers, once their data is there.

Response(status, body) == [status |-> status, body |-> body]

\* GET /api/players
PlayersResponse(data) ==
    LET teams == data.teams
        elementTypes == data.element_types
        players == [i \in 1..Len(data.elements) |->
                       mapPlayer(data.elements[i], teams, elementTypes)]
        simpleTeams == [i \in 1..Len(teams) |->
                           [id |-> teams[i].id, name |-> teams[i].name]]
    IN  Response(200, [players |-> players, teams |-> simpleTeams])

\* variant: the find callback assigns instead of comparing (p.id = id), so
\* any truthy id finds the first player
PlayerResponse_FirstPlayer(param, data) ==
    LET id == Number(param)
        playerRaw == IF Falsy(id) \/ data.elements = <<>> THEN Null
                     ELSE [data.elements[1] EXCEPT !.id = id[1]]
    IN  IF playerRaw = Null
        THEN Response(404, [error |-> "Player not found"])
        ELSE Response(200, mapPlayer(playerRaw, data.teams, data.element_types))

\* GET /api/player/:id
PlayerResponse(param, data) ==
    LET id == Number(param)
        playerRaw == FindById(data.elements, id)
    IN  IF playerRaw = Null
        THEN Response(404, [error |-> "Player not found"])
        ELSE Response(200, mapPlayer(playerRaw, data.teams, data.element_types))

\* if (!teamId) return res.status(400)...: decided before anything is fetched
InvalidTeamId(teamId) == Falsy(teamId)

\* GET /api/team-fixtures/:teamId after Promise.all resolved
TeamFixturesResponse(param, bootstrap, fixtures) ==
    LET teamId == Number(param)
        teams == bootstrap.teams
        team == FindById(teams, teamId)
    IN  IF team = Null
        THEN Response(404, [error |-> "Team not found"])
        ELSE Response(200, [team_id |-> teamId[1],
                            team_name |-> team.name,
                            fixtures |-> TeamFixtures(fixtures, teamId, teams)])

\* the catch block of each handler
ErrorResponse(kind) ==
    Response(500, [error |->
        CASE kind = "players" -> "Failed to fetch FPL data"
          [] kind = "player" -> "Failed to fetch player"
          [] kind = "team-fixtures" -> "Failed to fetch team fixtures"])

----------------------------------------------------------------------------
\* The two caches.

VARIABLES clock, cachedBootstrap, bootstrapTimestamp, cachedFixtures,
          fixturesTimestamp

\* variant: the window includes its end (<= for <)
BootstrapHit_Inclusive(now) ==
    cachedBootstrap # Null /\ now - bootstrapTimestamp <= BOOTSTRAP_CACHE_MS

\* variant: the comparison is turned around (> for <)
BootstrapHit_Flipped(now) ==
    cachedBootstrap # Null /\ now - bootstrapTimestamp > BOOTSTRAP_CACHE_MS

\* cachedBootstrap && now - bootstrapTimestamp < BOOTSTRAP_CACHE_MS
BootstrapHit(now) ==
    cachedBootstrap # Null /\ now - bootstrapTimestamp < BOOTSTRAP_CACHE_MS

\* cachedFixtures && now - fixturesTimestamp < FIXTURES_CACHE_MS
FixturesHit(now) ==
    cachedFixtures # Null /\ now - fixturesTimestamp < FIXTURES_CACHE_MS

\* variant: a failed refresh clears the entry
BootstrapRefresh_EvictOnFail(now, clk, outcome) ==
    IF outcome.kind = "ok"
    THEN [data |-> outcome.data, ts |-> now]
    ELSE [data |-> Null, ts |-> 0]

\* variant: the payload is stored and the timestamp is left alone
BootstrapRefresh_NoStamp(now, clk, outcome) ==
    IF outcome.kind = "ok"
    THEN [data |-> outcome.data, ts |-> bootstrapTimestamp]
    ELSE [data |-> cachedBootstrap, ts |-> bootstrapTimestamp]

\* variant: the timestamp only ever moves forward (Math.max)
BootstrapRefresh_NewestStamp(now, clk, outcome) ==
    IF outcome.kind = "ok"
    THEN [data |-> outcome.data,
          ts |-> IF bootstrapTimestamp > now THEN bootstrapTimestamp ELSE now]
    ELSE [data |-> cachedBootstrap, ts |-> bootstrapTimestamp]

\* what getBootstrapStatic leaves in the cache when its fetch settles: now
\* is the Date.now() the call took when it began, clk the time at which the
\* fetch settles.  A failure throws before the two assignments.
BootstrapRefresh(now, clk, outcome) ==
    IF outcome.kind = "ok"
    THEN [data |-> outcome.data, ts |-> now]
    ELSE [data |-> cachedBootstrap, ts |-> bootstrapTimestamp]

\* variant: the timestamp is taken when the fetch settles (a second
\* Date.now() after the awaits)
FixturesRefresh_StampOnSettle(now, clk, outcome) ==
    IF outcome.kind = "ok"
    THEN [data |-> outcome.data, ts |-> clk]
    ELSE [data |-> cachedFixtures, ts |-> fixturesTimestamp]

\* the same for getFixtures
FixturesRefresh(now, clk, outcome) ==
    IF outcome.kind = "ok"
    THEN [data |-> outcome.data, ts |-> now]
    ELSE [data |-> cachedFixtures, ts |-> fixturesTimestamp]

----------------------------------------------------------------------------
\* Requests in flight.

\* reqs[i] is the i-th request to arrive: its route and parameter, where its
\* handler stands, its call of getBootstrapStatic (b) and of getFixtures
\* (f), and what it has sent.  A call records the Date.now() it read (now),
\* when its fetch was sent (issued), the payload it returned (data) and, as
\* history, the entry it found (seen), whose write it was served from (src)
\* and whether no fetch of the resource was in flight when it began (quiet).
\* fetches counts the GETs sent upstream.
\* bootstrapWriter and fixturesWriter name the request whose call made the
\* last assignment to the cache (0: none yet).
VARIABLES reqs, fetches, bootstrapWriter, fixturesWriter

\* the input and the output of one run of the fixture selector on its own
VARIABLES selFixtures, selTeamId, selOut

vars == <<clock, cachedBootstrap, bootstrapTimestamp, cachedFixtures,
          fixturesTimestamp, reqs, fetches, bootstrapWriter, fixturesWriter,
          selFixtures, selTeamId, selOut>>

cacheVars == <<cachedBootstrap, bootstrapTimestamp, cachedFixtures,
               fixturesTimestamp, bootstrapWriter, fixturesWriter>>

selVars == <<selFixtures, selTeamId, selOut>>

ReqIds == 1..MaxReqs

\* a call that was not made
NoCall ==
    [st |-> "none", now |-> 0, issued |-> 0, data |-> Null, src |-> 0,
     quiet |-> FALSE, seen |-> [data |-> Null, ts |-> 0]]

IdleReq ==
    [kind |-> "none", param |-> <<>>, pc |-> "idle", b |-> NoCall,
     f |-> NoCall, status |-> 0, body |-> Null, nresp |-> 0]

Fetched(call) == call.st \in {"pending", "ok", "fail"}

BootstrapInFlight == \E j \in ReqIds : reqs[j].b.st = "pending"
FixturesInFlight == \E j \in ReqIds : reqs[j].f.st = "pending"

\* the synchronous part of getBootstrapStatic: now = Date.now(), then either
\* the cached payload is returned or the fetch is issued
BootstrapCall ==
    IF BootstrapHit(clock)
    THEN [st |-> "hit", now |-> clock, issued |-> 0, data |-> cachedBootstrap,
          src |-> bootstrapWriter, quiet |-> ~BootstrapInFlight,
          seen |-> [data |-> cachedBootstrap, ts |-> bootstrapTimestamp]]
    ELSE [st |-> "pending", now |-> clock, issued |-> clock, data |-> Null,
          src |-> 0, quiet |-> ~BootstrapInFlight,
          seen |-> [data |-> cachedBootstrap, ts |-> bootstrapTimestamp]]

\* the synchronous part of getFixtures
FixturesCall ==
    IF FixturesHit(clock)
    THEN [st |-> "hit", now |-> clock, issued |-> 0, data |-> cachedFixtures,
          src |-> fixturesWriter, quiet |-> ~FixturesInFlight,
          seen |-> [data |-> cachedFixtures, ts |-> fixturesTimestamp]]
    ELSE [st |-> "pending", now |-> clock, issued |-> clock, data |-> Null,
          src |-> 0, quiet |-> ~FixturesInFlight,
          seen |-> [data |-> cachedFixtures, ts |-> fixturesTimestamp]]

\* res.status(..).json(..)
Send(r, response) ==
    [r EXCEPT !.pc = "done", !.status = response.status,
              !.body = response.body, !.nresp = @ + 1]

\* what the handler answers when nothing it awaited has failed
HandlerResponse(r) ==
    CASE r.kind = "players" -> PlayersResponse(r.b.data)
      [] r.kind = "player" -> PlayerResponse(r.param, r.b.data)
      [] r.kind = "team-fixtures" ->
            IF InvalidTeamId(Number(r.param))
            THEN Response(400, [error |-> "Invalid team id"])
            ELSE TeamFixturesResponse(r.param, r.b.data, r.f.data)

\* the handler as far as it can run: a rejected await (alone or inside
\* Promise.all) lands in catch, a pending one suspends it, otherwise it
\* answers.  A handler that has answered does nothing more.
Continue(r) ==
    IF r.pc = "done" THEN r
    ELSE IF r.b.st = "fail" \/ r.f.st = "fail"
         THEN Send(r, ErrorResponse(r.kind))
    ELSE IF r.b.st = "pending" \/ r.f.st = "pending"
         THEN [r EXCEPT !.pc = "await"]
    ELSE Send(r, HandlerResponse(r))

CountFetches(r) ==
    [bootstrap |-> fetches.bootstrap + IF r.b.st = "pending" THEN 1 ELSE 0,
     fixtures |-> fetches.fixtures + IF r.f.st = "pending" THEN 1 ELSE 0]

\* requests arrive in the order of their numbers
Arrives(i) ==
    /\ reqs[i].pc = "idle"
    /\ IF i = 1 THEN TRUE ELSE reqs[i - 1].pc # "idle"

\* the :id and :teamId parameters that arrive
PlayerIds == {<<"2">>, <<"x">>}
TeamIds == {<<"x">>, <<"0">>, <<"-", "1">>, <<"1">>, <<"1", "2">>}

----------------------------------------------------------------------------
\* Actions.

\* time passes
Tick(d) ==
    /\ clock + d <= StartClock + MaxWindows * BOOTSTRAP_CACHE_MS
    /\ clock' = clock + d
    /\ UNCHANGED <<cacheVars, reqs, fetches, selVars>>

\* app.get("/api/players", ...)
GetPlayers(i) ==
    /\ Arrives(i)
    /\ LET r == [IdleReq EXCEPT !.kind = "players", !.b = BootstrapCall]
       IN  /\ reqs' = [reqs EXCEPT ![i] = Continue(r)]
           /\ fetches' = CountFetches(r)
    /\ UNCHANGED <<clock, cacheVars, selVars>>

\* app.get("/api/player/:id", ...)
GetPlayer(i, param) ==
    /\ Arrives(i)
    /\ LET r == [IdleReq EXCEPT !.kind = "player", !.param = param,
                                !.b = BootstrapCall]
       IN  /\ reqs' = [reqs EXCEPT ![i] = Continue(r)]
           /\ fetches' = CountFetches(r)
    /\ UNCHANGED <<clock, cacheVars, selVars>>

\* app.get("/api/team-fixtures/:teamId", ...)
GetTeamFixtures(i, param) ==
    /\ Arrives(i)
    /\ LET bad == InvalidTeamId(Number(param))
           r == [IdleReq EXCEPT
                    !.kind = "team-fixtures", !.param = param,
                    !.b = IF bad THEN NoCall ELSE BootstrapCall,
                    !.f = IF bad THEN NoCall ELSE FixturesCall]
       IN  /\ reqs' = [reqs EXCEPT ![i] = Continue(r)]
           /\ fetches' = CountFetches(r)
    /\ UNCHANGED <<clock, cacheVars, selVars>>

\* the fetch of getBootstrapStatic called by request i settles
BootstrapSettles(i, outcome) ==
    /\ reqs[i].b.st = "pending"
    /\ LET entry == BootstrapRefresh(reqs[i].b.now, clock, outcome)
           ok == outcome.kind = "ok"
           r == [reqs[i] EXCEPT
                    !.b.st = IF ok THEN "ok" ELSE "fail",
                    !.b.data = IF ok THEN outcome.data ELSE Null]
       IN  /\ cachedBootstrap' = entry.data
           /\ bootstrapTimestamp' = entry.ts
           /\ bootstrapWriter' = IF ok THEN i ELSE bootstrapWriter
           /\ reqs' = [reqs EXCEPT ![i] = Continue(r)]
    /\ UNCHANGED <<clock, cachedFixtures, fixturesTimestamp, fixturesWriter,
                   fetches, selVars>>

\* the fetch of getFixtures called by request i settles
FixturesSettles(i, outcome) ==
    /\ reqs[i].f.st = "pending"
    /\ LET entry == FixturesRefresh(reqs[i].f.now, clock, outcome)
           ok == outcome.kind = "ok"
           r == [reqs[i] EXCEPT
                    !.f.st = IF ok THEN "ok" ELSE "fail",
                    !.f.data = IF ok THEN outcome.data ELSE Null]
       IN  /\ cachedFixtures' = entry.data
           /\ fixturesTimestamp' = entry.ts
           /\ fixturesWriter' = IF ok THEN i ELSE fixturesWriter
           /\ reqs' = [reqs EXCEPT ![i] = Continue(r)]
    /\ UNCHANGED <<clock, cachedBootstrap, bootstrapTimestamp,
                   bootstrapWriter, fetches, selVars>>

Init ==
    /\ clock = StartClock
    /\ cachedBootstrap = Null
    /\ bootstrapTimestamp = 0
    /\ cachedFixtures = Null
    /\ fixturesTimestamp = 0
    /\ reqs = [i \in ReqIds |-> IdleReq]
    /\ fetches = [bootstrap |-> 0, fixtures |-> 0]
    /\ bootstrapWriter = 0
    /\ fixturesWriter = 0
    /\ selFixtures = <<>>
    /\ selTeamId = <<1>>
    /\ selOut = Null

Next ==
    \/ \E d \in {BOOTSTRAP_CACHE_MS - 1, BOOTSTRAP_CACHE_MS} : Tick(d)
    \/ \E i \in ReqIds : GetPlayers(i)
    \/ \E i \in ReqIds, param \in PlayerIds : GetPlayer(i, param)
    \/ \E i \in ReqIds, param \in TeamIds : GetTeamFixtures(i, param)
    \/ \E i \in ReqIds, outcome \in OkOutcomes(BootstrapPayloads) \cup FailOutcomes :
          BootstrapSettles(i, outcome)
    \/ \E i \in ReqIds, outcome \in OkOutcomes(FixturesPayloads) \cup FailOutcomes :
          FixturesSettles(i, outcome)

Spec == Init /\ [][Next]_vars

----------------------------------------------------------------------------
\* The fixture selector on its own: the handler's filter/sort/slice/map run
\* once on a drawn upstream fixture list.

\* what a drawn fixture can be: [event, home, away, difficulties]
FixtureShapes ==
    {[event |-> NoEvent, h |-> 1, a |-> 2, hd |-> 2, ad |-> 4],
     [event |-> <<1>>, h |-> 2, a |-> 1, hd |-> 2, ad |-> 5],
     [event |-> <<1000>>, h |-> 3, a |-> 1, hd |-> 4, ad |-> 2],
     [event |-> <<0>>, h |-> 1, a |-> 3, hd |-> 1, ad |-> 1],
     [event |-> <<2>>, h |-> 2, a |-> 3, hd |-> 3, ad |-> 4]}

\* the teams of the dataset the selector looks opponents up in
SelTeams == BootstrapA.teams

InitSelect ==
    /\ clock = StartClock
    /\ cachedBootstrap = Null
    /\ bootstrapTimestamp = 0
    /\ cachedFixtures = Null
    /\ fixturesTimestamp = 0
    /\ reqs = [i \in ReqIds |-> IdleReq]
    /\ fetches = [bootstrap |-> 0, fixtures |-> 0]
    /\ bootstrapWriter = 0
    /\ fixturesWriter = 0
    /\ \E n \in 0..MaxFixtures : \E shape \in [1..n -> FixtureShapes] :
          selFixtures =
              [k \in 1..n |->
                  Fixture(k, shape[k].event, shape[k].h, shape[k].a,
                          shape[k].hd, shape[k].ad)]
    /\ selTeamId \in {<<1>>, <<2>>}
    /\ selOut = Null

SelectFixtures ==
    /\ selOut = Null
    /\ selOut' = [fixtures |-> TeamFixtures(selFixtures, selTeamId, SelTeams)]
    /\ UNCHANGED <<clock, cacheVars, reqs, fetches, selFixtures, selTeamId>>

NextSelect == SelectFixtures

SpecSelect == InitSelect /\ [][NextSelect]_vars

----------------------------------------------------------------------------
\* Properties of the caches.

\* request i arrives in this step
Arriving(i) == reqs[i].pc = "idle" /\ reqs'[i].pc # "idle"

\* C1: a call of getBootstrapStatic or getFixtures made at time now is a
\* cache hit if and only if a payload is cached and now - timestamp is below
\* 60000 ms; a hit returns the cached payload and sends nothing upstream,
\* every other call sends one upstream request.
C1_HitIffFresh ==
    [][\A i \in ReqIds : Arriving(i) =>
        /\ reqs'[i].b.st # "none" =>
            LET fresh == cachedBootstrap # Null
                           /\ clock - bootstrapTimestamp < 60000
            IN  /\ reqs'[i].b.now = clock
                /\ fresh => /\ reqs'[i].b.st = "hit"
                            /\ reqs'[i].b.data = cachedBootstrap
                            /\ fetches'.bootstrap = fetches.bootstrap
                /\ ~fresh => /\ reqs'[i].b.st = "pending"
                             /\ fetches'.bootstrap = fetches.bootstrap + 1
        /\ reqs'[i].f.st # "none" =>
            LET fresh == cachedFixtures # Null
                           /\ clock - fixturesTimestamp < 60000
            IN  /\ reqs'[i].f.now = clock
                /\ fresh => /\ reqs'[i].f.st = "hit"
                            /\ reqs'[i].f.data = cachedFixtures
                            /\ fetches'.fixtures = fetches.fixtures
                /\ ~fresh => /\ reqs'[i].f.st = "pending"
                             /\ fetches'.fixtures = fetches.fixtures + 1
      ]_vars

\* a request that found both entries 59999 ms old and was served from them
C1_Witness ==
    \E i \in ReqIds :
        /\ reqs[i].b.st = "hit" /\ reqs[i].f.st = "hit"
        /\ reqs[i].b.now - bootstrapTimestamp = 59999
        /\ reqs[i].f.now - fixturesTimestamp = 59999
        /\ reqs[i].status = 200

\* the claim C2 as it stands: when the fetch of a call fails, the payload
\* and the timestamp of the resource are exactly what they were before the
\* call (what the call found when it began), and the request answers 500
C2_Original ==
    [][\A i \in ReqIds :
        /\ (reqs[i].b.st = "pending" /\ reqs'[i].b.st = "fail") =>
            /\ cachedBootstrap' = reqs[i].b.seen.data
            /\ bootstrapTimestamp' = reqs[i].b.seen.ts
            /\ reqs'[i].status = 500
        /\ (reqs[i].f.st = "pending" /\ reqs'[i].f.st = "fail") =>
            /\ cachedFixtures' = reqs[i].f.seen.data
            /\ fixturesTimestamp' = reqs[i].f.seen.ts
            /\ reqs'[i].status = 500
      ]_vars

\* C2 (amended): when the fetch of a call fails (status, transport or JSON
\* error) the failure leaves the payload and the timestamp of the resource
\* exactly what they were just before it (another call's refresh that
\* succeeded meanwhile may have replaced what the call found), and the
\* request that made the call has answered HTTP 500 with an error field,
\* once.
C2_FailedRefreshKeepsEntry ==
    [][\A i \in ReqIds :
        /\ (reqs[i].b.st = "pending" /\ reqs'[i].b.st = "fail") =>
            /\ cachedBootstrap' = cachedBootstrap
            /\ bootstrapTimestamp' = bootstrapTimestamp
            /\ reqs'[i].pc = "done" /\ reqs'[i].status = 500
            /\ reqs'[i].body = ErrorResponse(reqs[i].kind).body
            /\ reqs'[i].nresp = 1
        /\ (reqs[i].f.st = "pending" /\ reqs'[i].f.st = "fail") =>
            /\ cachedFixtures' = cachedFixtures
            /\ fixturesTimestamp' = fixturesTimestamp
            /\ reqs'[i].pc = "done" /\ reqs'[i].status = 500
            /\ reqs'[i].body = ErrorResponse(reqs[i].kind).body
            /\ reqs'[i].nresp = 1
      ]_vars

\* a refresh of an expired entry failed and the expired payload is still
\* cached
C2_Witness ==
    \E i \in ReqIds :
        /\ reqs[i].b.st = "fail"
        /\ reqs[i].status = 500
        /\ cachedBootstrap # Null
        /\ reqs[i].b.now - bootstrapTimestamp >= 60000

\* the claim C3 as it stands: of two calls for one resource made less than
\* 60000 ms apart, at most one sends an upstream request
C3_Original ==
    \A i, j \in ReqIds :
        /\ (/\ i # j
            /\ reqs[i].b.st # "none" /\ reqs[j].b.st # "none"
            /\ reqs[j].b.now - reqs[i].b.now \in 0..59999)
           => ~(Fetched(reqs[i].b) /\ Fetched(reqs[j].b))
        /\ (/\ i # j
            /\ reqs[i].f.st # "none" /\ reqs[j].f.st # "none"
            /\ reqs[j].f.now - reqs[i].f.now \in 0..59999)
           => ~(Fetched(reqs[i].f) /\ Fetched(reqs[j].f))

\* C3 (amended): when a call begins after an earlier call of the same
\* resource has fetched with success, less than 60000 ms after that call
\* began, and that earlier call began while no other fetch of the resource
\* was in flight, the later call sends no upstream request; a call that
\* finds an entry of 60000 ms or older sends exactly one; and nothing but
\* the arrival of a request sends upstream requests.
C3_SequentialCallsShareOneFetch ==
    [][/\ \A j \in ReqIds : Arriving(j) =>
            /\ reqs'[j].b.st # "none" =>
                /\ (\E i \in ReqIds :
                        /\ reqs[i].b.st = "ok" /\ reqs[i].b.quiet
                        /\ clock - reqs[i].b.now < 60000)
                   => /\ ~Fetched(reqs'[j].b)
                      /\ fetches'.bootstrap = fetches.bootstrap
                /\ (cachedBootstrap # Null
                        /\ clock - bootstrapTimestamp >= 60000)
                   => /\ Fetched(reqs'[j].b)
                      /\ fetches'.bootstrap = fetches.bootstrap + 1
            /\ reqs'[j].f.st # "none" =>
                /\ (\E i \in ReqIds :
                        /\ reqs[i].f.st = "ok" /\ reqs[i].f.quiet
                        /\ clock - reqs[i].f.now < 60000)
                   => /\ ~Fetched(reqs'[j].f)
                      /\ fetches'.fixtures = fetches.fixtures
                /\ (cachedFixtures # Null
                        /\ clock - fixturesTimestamp >= 60000)
                   => /\ Fetched(reqs'[j].f)
                      /\ fetches'.fixtures = fetches.fixtures + 1
       /\ (\A j \in ReqIds : ~Arriving(j)) => fetches' = fetches
      ]_vars

\* a second request was served within the window from what the first one,
\* alone in flight, had fetched: one upstream request for the two
C3_Witness ==
    \E i, j \in ReqIds :
        /\ reqs[i].b.st = "ok" /\ reqs[i].b.quiet
        /\ reqs[j].b.st = "hit" /\ reqs[j].b.src = i
        /\ reqs[j].b.now - reqs[i].b.now = 59999
        /\ fetches.bootstrap = 1

\* the claim C8 as it stands: the timestamp stored by a successful refresh
\* is the time at which the refresh completed and the entry was written
C8_Original ==
    [][\A i \in ReqIds :
        /\ (reqs[i].b.st = "pending" /\ reqs'[i].b.st = "ok") =>
            bootstrapTimestamp' = clock
        /\ (reqs[i].f.st = "pending" /\ reqs'[i].f.st = "ok") =>
            fixturesTimestamp' = clock
      ]_vars

\* C8 (amended): on a miss whose fetch succeeds the cache stores the fetched
\* payload together with the time the call read when it began, before the
\* fetch was sent (not the time at which the fetch completed), and the call
\* returns that payload.
C8_StoresPayloadAndCallTime ==
    [][\A i \in ReqIds :
        /\ (reqs[i].b.st = "pending" /\ reqs'[i].b.st = "ok") =>
            /\ cachedBootstrap' \in BootstrapPayloads
            /\ bootstrapTimestamp' = reqs[i].b.now
            /\ reqs'[i].b.data = cachedBootstrap'
            /\ reqs[i].b.now <= clock
        /\ (reqs[i].f.st = "pending" /\ reqs'[i].f.st = "ok") =>
            /\ cachedFixtures' \in FixturesPayloads
            /\ fixturesTimestamp' = reqs[i].f.now
            /\ reqs'[i].f.data = cachedFixtures'
            /\ reqs[i].f.now <= clock
      ]_vars

\* a refresh completed after a call that began later than it had already
\* completed, so later than it began, and has stored the time it began
C8_Witness ==
    \E i, j \in ReqIds :
        /\ reqs[i].b.st = "ok" /\ bootstrapWriter = i
        /\ reqs[i].status = 200
        /\ cachedBootstrap = reqs[i].b.data
        /\ bootstrapTimestamp = reqs[i].b.now
        /\ reqs[j].b.st = "ok" /\ reqs[j].b.now > reqs[i].b.now

\* C9: each cache entry is either the initial empty entry or the payload
\* and the call time of one single successful fetch, the one that wrote last.
C9_EntryOfOneFetch ==
    /\ IF bootstrapWriter = 0
       THEN cachedBootstrap = Null /\ bootstrapTimestamp = 0
       ELSE /\ reqs[bootstrapWriter].b.st = "ok"
            /\ cachedBootstrap = reqs[bootstrapWriter].b.data
            /\ bootstrapTimestamp = reqs[bootstrapWriter].b.now
    /\ IF fixturesWriter = 0
       THEN cachedFixtures = Null /\ fixturesTimestamp = 0
       ELSE /\ reqs[fixturesWriter].f.st = "ok"
            /\ cachedFixtures = reqs[fixturesWriter].f.data
            /\ fixturesTimestamp = reqs[fixturesWriter].f.now

\* two refreshes raced and the one that began first wrote last: the entry
\* is its payload with its (older) time
C9_Witness ==
    \E i, j \in ReqIds :
        /\ fixturesWriter = i
        /\ reqs[i].f.st = "ok" /\ reqs[j].f.st = "ok"
        /\ reqs[j].f.now > reqs[i].f.now
        /\ reqs[j].f.data # reqs[i].f.data
        /\ fetches.fixtures = 2
        /\ bootstrapWriter = j /\ reqs[i].b.st = "ok"

\* C10: the stored timestamp is never later than the time at which the
\* fetch that produced the stored payload was sent, and every payload
\* served as a hit was fetched by a request sent less than 60000 ms before
\* the hit.
C10_HitsAreFresh ==
    /\ cachedBootstrap # Null =>
           bootstrapTimestamp <= reqs[bootstrapWriter].b.issued
    /\ cachedFixtures # Null =>
           fixturesTimestamp <= reqs[fixturesWriter].f.issued
    /\ \A i \in ReqIds :
        /\ reqs[i].b.st = "hit" =>
            /\ reqs[i].b.src # 0
            /\ reqs[i].b.data = reqs[reqs[i].b.src].b.data
            /\ reqs[i].b.now - reqs[reqs[i].b.src].b.issued \in 0..59999
        /\ reqs[i].f.st = "hit" =>
            /\ reqs[i].f.src # 0
            /\ reqs[i].f.data = reqs[reqs[i].f.src].f.data
            /\ reqs[i].f.now - reqs[reqs[i].f.src].f.issued \in 0..59999

\* a hit on a fixtures payload whose fetch was sent 59999 ms earlier and
\* settled only after time had passed
C10_Witness ==
    \E i \in ReqIds :
        /\ reqs[i].f.st = "hit"
        /\ reqs[i].f.now - reqs[reqs[i].f.src].f.issued = 59999
        /\ reqs[reqs[i].f.src].b.st = "fail"

----------------------------------------------------------------------------
\* Properties of the handlers.

\* the claim C4 as it stands: GET /api/team-fixtures/:teamId with a teamId
\* that is not a number, or is zero or negative, answers HTTP 400 and sends
\* nothing upstream
C4_Original ==
    \A i \in ReqIds :
        (/\ reqs[i].kind = "team-fixtures"
         /\ \/ Number(reqs[i].param) = NaN
            \/ Number(reqs[i].param)[1] <= 0)
        => /\ reqs[i].b.st = "none" /\ reqs[i].f.st = "none"
           /\ reqs[i].pc = "done" /\ reqs[i].status = 400

\* C7: GET /api/player/:id answers once: HTTP 500 with an error field when
\* obtaining the dataset failed; otherwise HTTP 404 with an error field when
\* no raw player has exactly the parsed id; otherwise HTTP 200 with the
\* projection of the first raw player with that id.
C7_PlayerAnswersOnce ==
    \A i \in ReqIds : reqs[i].kind = "player" =>
        LET r == reqs[i]
            id == Number(r.param)
            hits == {k \in 1..Len(r.b.data.elements) :
                        id # NaN /\ r.b.data.elements[k].id = id[1]}
        IN  /\ r.b.st # "none" /\ r.f.st = "none"
            /\ r.b.st = "pending" => r.pc = "await" /\ r.nresp = 0
            /\ r.b.st # "pending" => r.pc = "done" /\ r.nresp = 1
            /\ r.b.st = "fail" =>
                   r.status = 500 /\ r.body = [error |-> "Failed to fetch player"]
            /\ (r.b.st \in {"hit", "ok"} /\ hits = {}) =>
                   r.status = 404 /\ r.body = [error |-> "Player not found"]
            /\ (r.b.st \in {"hit", "ok"} /\ hits # {}) =>
                   LET k == CHOOSE k \in hits : \A m \in hits : k <= m
                       raw == r.b.data.elements[k]
                   IN  /\ r.status = 200
                       /\ r.body.id = id[1]
                       /\ r.body.web_name = raw.web_name
                       /\ r.body.stats.total_points = raw.total_points
                       /\ r.body = mapPlayer(raw, r.b.data.teams,
                                             r.b.data.element_types)

\* the same player id answered 200 from one snapshot and 404 from the other
C7_Witness ==
    \E i, j \in ReqIds :
        /\ reqs[i].kind = "player" /\ reqs[j].kind = "player"
        /\ reqs[i].param = <<"2">> /\ reqs[j].param = <<"2">>
        /\ reqs[i].status = 200 /\ reqs[i].body.web_name = "Watkins"
        /\ reqs[j].status = 404

----------------------------------------------------------------------------
\* Properties of the fixture selector (under SpecSelect).

\* the positions of the drawn fixtures in which the requested team plays
SelPlays ==
    {k \in 1..Len(selFixtures) :
        \/ selFixtures[k].team_h = selTeamId[1]
        \/ selFixtures[k].team_a = selTeamId[1]}

\* the place of fixture k among SelPlays in the stable ascending order by
\* key, a function of the position in the upstream list
StableRank(k, key) ==
    1 + Cardinality({j \in SelPlays :
                        \/ key[j] < key[k]
                        \/ key[j] = key[k] /\ j < k})

\* the answer lists exactly the first min(5, n) fixtures of that order
FirstFiveBy(key) ==
    selOut # Null =>
        /\ Len(selOut.fixtures) = Min(5, Cardinality(SelPlays))
        /\ \A k \in SelPlays : StableRank(k, key) <= 5 =>
              /\ selOut.fixtures[StableRank(k, key)].kickoff_time =
                     selFixtures[k].kickoff_time
              /\ selOut.fixtures[StableRank(k, key)].gw = selFixtures[k].event

\* the gameweeks that upstream has assigned in the drawn list
AssignedEvents ==
    {selFixtures[m].event[1] :
        m \in {n \in 1..Len(selFixtures) : selFixtures[n].event # NoEvent}}

\* the order of the claim: by gameweek, a fixture without one after every
\* fixture that has one
ClaimKey ==
    [k \in 1..Len(selFixtures) |->
        IF selFixtures[k].event = NoEvent
        THEN 1 + Cardinality(UNION {0..e : e \in AssignedEvents})
        ELSE selFixtures[k].event[1]]

\* the order of the code: a fixture without a gameweek, or with gameweek 0,
\* counts as gameweek 999
SentinelKey ==
    [k \in 1..Len(selFixtures) |->
        IF selFixtures[k].event = NoEvent THEN 999
        ELSE IF selFixtures[k].event[1] = 0 THEN 999
        ELSE selFixtures[k].event[1]]

\* the claim C5 as it stands: the fixtures returned are the first min(5, n)
\* of the team's fixtures stably sorted ascending by gameweek, those without
\* a gameweek after all those with one
C5_Original == FirstFiveBy(ClaimKey)

\* C5 (amended): the fixtures returned are the first min(5, n) of the
\* team's fixtures stably sorted ascending by gameweek, where a fixture
\* without a gameweek (or with gameweek 0) is ordered as gameweek 999: after
\* every gameweek 1..998, tied with 999, before any larger one.
C5_FirstFiveBySentinelOrder == FirstFiveBy(SentinelKey)

\* six fixtures of the team, five returned: two tied on gameweek 1 in
\* upstream order, the unscheduled one retained last, gameweek 1000 dropped
C5_Witness ==
    /\ selOut # Null
    /\ Cardinality(SelPlays) = 6
    /\ Len(selOut.fixtures) = 5
    /\ selOut.fixtures[5].gw = NoEvent
    /\ selOut.fixtures[1].gw = <<1>> /\ selOut.fixtures[2].gw = <<1>>
    /\ selOut.fixtures[1].kickoff_time < selOut.fixtures[2].kickoff_time
    /\ \E k \in SelPlays : selFixtures[k].event = <<1000>>

\* C6: in every returned fixture, when the opponent is a team of the
\* dataset the two strengths are the opponent's away defence and attack if
\* the requested team is home and its home defence and attack if the
\* requested team is away; when the opponent is not in the dataset both
\* strengths are null and the name is "Unknown".
C6_VenueInversion ==
    selOut # Null =>
        \A n \in 1..Len(selOut.fixtures) :
            LET v == selOut.fixtures[n]
                f == selFixtures[v.kickoff_time]
                home == f.team_h = selTeamId[1]
                opp == IF home THEN f.team_a ELSE f.team_h
                known == {m \in 1..Len(SelTeams) : SelTeams[m].id = opp}
            IN  /\ v.is_home = home
                /\ v.opponent_team_id = opp
                /\ known = {} =>
                       /\ v.opponent_def_strength = NullNumber
                       /\ v.opponent_att_strength = NullNumber
                       /\ v.opponent_name = "Unknown"
                /\ \A m \in known :
                       /\ v.opponent_name = SelTeams[m].name
                       /\ home =>
                           /\ v.opponent_def_strength =
                                  <<SelTeams[m].strength_defence_away>>
                           /\ v.opponent_att_strength =
                                  <<SelTeams[m].strength_attack_away>>
                       /\ ~home =>
                           /\ v.opponent_def_strength =
                                  <<SelTeams[m].strength_defence_home>>
                           /\ v.opponent_att_strength =
                                  <<SelTeams[m].strength_attack_home>>

\* an answer with a home fixture and an away fixture against a known team
\* and a fixture against a team the dataset does not list
C6_Witness ==
    /\ selOut # Null
    /\ \E a, b, c \in 1..Len(selOut.fixtures) :
          /\ selOut.fixtures[a].is_home
          /\ selOut.fixtures[a].opponent_def_strength = <<24>>
          /\ ~selOut.fixtures[b].is_home
          /\ selOut.fixtures[b].opponent_att_strength = <<21>>
          /\ selOut.fixtures[c].opponent_name = "Unknown"
          /\ selOut.fixtures[c].opponent_def_strength = NullNumber

====
